---- MODULE Spec2Model ----
(***************************************************************************)
(* Model of mudslide/batch.py: the batch controller BatchedTraj            *)
(* (construction, run_trajectories, compute), the module-level wrapper     *)
(* unwrapped_run_trajectories, and the collaborators the controller calls  *)
(* (the sampler traj_gen, the trajectory constructor with simulate() and   *)
(* outcome(), and the trace manager), the two canned samplers              *)
(* TrajGenConst and TrajGenNormal, and the queue worker traj_runner.       *)
(*                                                                         *)
(* Python values are tagged tuples, so that values of different Python     *)
(* types can sit in one dict and be compared.  A dict is a function from   *)
(* its keys (strings) to values.                                           *)
(***************************************************************************)
EXTENDS Integers, Sequences, FiniteSets, TLC

VARIABLES
    inp,            \* **inp given to BatchedTraj.__init__
    tm_arg,         \* tracemanager given to BatchedTraj.__init__
    options,        \* BatchedTraj.options (one dict object, shared)
    tm,             \* BatchedTraj.tracemanager
    entry,          \* the entry point that was called
    n,              \* the number of samples requested from traj_gen
    pc,             \* position of the call in the code
    nyield,         \* how many samples the generator traj_gen(n) has yielded
    params,         \* the loop variable params of the current sample
    trajs,          \* the trajectory objects constructed, in order
    traj_queue,     \* compute: traj_queue, indexes into trajs
    results_queue,  \* compute: results_queue, the simulate() results
    outcomes,       \* run_trajectories: the local array outcomes
    traces,         \* run_trajectories: the local list traces
    warnings,       \* lines written to sys.stderr
    exc,            \* the exception in flight
    ret,            \* the value returned to the caller
    log,            \* the calls made on the collaborators, in order
    gens,           \* the sampler objects (TrajGenConst, TrajGenNormal) under study
    pool            \* the traj_runner workers and the two queues they share

vars == <<inp, tm_arg, options, tm, entry, n, pc, nyield, params, trajs, traj_queue,
          results_queue, outcomes, traces, warnings, exc, ret, log, gens, pool>>

\* ------------------------------------------------------------------ bounds

\* The most samples a sampler yields in one call.
MaxSamples == 3

\* self.model.nstates(): the number of electronic states of the model.
NStates == 1

\* ----------------------------------------------------------- Python values

None == <<"None">>
I(k) == <<"int", k>>
F(k) == <<"float", k>>
S(s) == <<"str", s>>
Seed(k) == <<"SeedSequence", k>>

EmptyDict == [k \in {} |-> None]

\* dict.update(other), as the new contents of the updated dict
DictUpdate(d, other) ==
    [k \in DOMAIN d \cup DOMAIN other |->
        IF k \in DOMAIN other THEN other[k] ELSE d[k]]

\* dict.get(key, default)
DictGet(d, key, default) == IF key \in DOMAIN d THEN d[key] ELSE default

\* int(v) of an int or of a float with an integral value
IntOf(v) == v[2]

\* ------------------------------------------------------- outcome arrays

\* An array of shape [nstates, 2], flattened row by row.
Bins == 1..(2 * NStates)

\* np.zeros([self.model.nstates(), 2])
Zeros == [b \in Bins |-> 0]

\* outcomes += v
VecAdd(a, v) == [b \in Bins |-> a[b] + v[b]]

\* The outcome() arrays a trajectory can report: one unit in one bin.
OutcomeVecs == {[b \in Bins |-> IF b = c THEN 1 ELSE 0] : c \in Bins}

\* ------------------------------------------------------------ construction

Recognized == {"initial_time", "samples", "dt", "nprocs", "outcome_type"}

Defaults ==
    [initial_time |-> F(0), samples |-> I(2000), dt |-> F(20),
     nprocs |-> I(1), outcome_type |-> S("state")]

\* d[key] = value, as the new contents of the dict
DictSet(d, key, value) ==
    [k \in DOMAIN d \cup {key} |-> IF k = key THEN value ELSE d[k]]

\* Lines 114-124: self.options = {}, then the five recognized keys are set
\* from inp.get(key, default)
RecognizedOptions(kw) ==
    LET o0 == EmptyDict
        o1 == DictSet(o0, "initial_time", DictGet(kw, "initial_time", Defaults["initial_time"]))
        o2 == DictSet(o1, "samples", DictGet(kw, "samples", Defaults["samples"]))
        o3 == DictSet(o2, "dt", DictGet(kw, "dt", Defaults["dt"]))
        o4 == DictSet(o3, "nprocs", DictGet(kw, "nprocs", Defaults["nprocs"]))
        o5 == DictSet(o4, "outcome_type", DictGet(kw, "outcome_type", Defaults["outcome_type"]))
    IN  o5

\* Lines 127-129: for x in inp: if x not in self.options: self.options[x] = inp[x]
RECURSIVE CopyRest(_, _, _)
CopyRest(opts, kw, keys) ==
    IF keys = {} THEN opts
    ELSE LET x == CHOOSE k \in keys : TRUE
         IN  CopyRest(IF x \notin DOMAIN opts THEN DictSet(opts, x, kw[x]) ELSE opts,
                      kw, keys \ {x})

\* A variant of BatchedTraj.__init__ without the loop of lines 127-129
BatchedTrajOptionsNoCopy(kw) == RecognizedOptions(kw)

\* BatchedTraj.__init__: self.options built from **inp
BatchedTrajOptions(kw) == CopyRest(RecognizedOptions(kw), kw, DOMAIN kw)

\* The keyword mappings the controller is constructed with.
InpSet ==
    { EmptyDict,
      [samples |-> I(2), dt |-> F(5)],
      [samples |-> I(MaxSamples), max_time |-> F(100), seed_sequence |-> Seed(0)] }

\* ----------------------------------------------------------------- sampler

\* The params dict a sampler can attach to the k-th sample it yields.
ParamChoices(k) ==
    { [seed_sequence |-> Seed(k)], [dt |-> F(k)], EmptyDict }

\* ------------------------------------------------------------ trace manager

\* TraceManager(): nothing spawned, nothing merged, outcomes not assigned
NewTraceManager == [spawned |-> 0, traces |-> <<>>, outcomes |-> None]

\* tracemanager.spawn_tracer(): the manager after the call; the handle it
\* returns is Handle(manager before the call)
SpawnTracer(t) == [t EXCEPT !.spawned = @ + 1]
Handle(t) == t.spawned + 1

\* tracemanager.merge_tracer(r)
MergeTracer(t, r) == [t EXCEPT !.traces = Append(@, r)]

\* tracemanager.outcome(): a summary computed from all the merged traces
TMOutcome(t) == <<"summary", t.traces>>

\* The trace simulate() returns for the i-th trajectory constructed; Trace(0)
\* stands for a trace from before this batch.
Trace(i) == <<"Trace", i>>

\* The tracemanager arguments the controller is constructed with: None, or a
\* manager that has been used before.
TraceManagerArgs ==
    { None,
      <<"TraceManager", [spawned |-> 1, traces |-> <<Trace(0)>>, outcomes |-> None]>> }

\* Lines 108-111: self.tracemanager is a fresh TraceManager() when the
\* argument is None, the given manager otherwise.
InitialTraceManager(arg) == IF arg = None THEN NewTraceManager ELSE arg[2]

\* ------------------------------------------------------------- trajectory

\* What a call of simulate() can do: return its trace, raise StillInteracting,
\* or raise some other exception.
SimResults == {"ok", "StillInteracting", "RuntimeError"}

\* self.trajectory(model, x0, p0, initial, tracer, **kw): the object records
\* the sample it was built from, the keyword arguments it received (a dict of
\* its own: ** unpacks into a new dict), and its tracer handle.
NewTraj(p, kw, h, q) ==
    [params |-> p, opts |-> kw, tracer |-> h, queue |-> q,
     result |-> "none", outcome |-> Zeros]

NoExc == [type |-> "none", at |-> "none"]

\* -------------------------------------------------------------------- Init

Init ==
    /\ inp \in InpSet
    /\ tm_arg \in TraceManagerArgs
    /\ options = BatchedTrajOptions(inp)
    /\ tm = InitialTraceManager(tm_arg)
    /\ entry = "none"
    /\ n = 0
    /\ pc = "idle"
    /\ nyield = 0
    /\ params = EmptyDict
    /\ trajs = <<>>
    /\ traj_queue = <<>>
    /\ results_queue = <<>>
    /\ outcomes = Zeros
    /\ traces = <<>>
    /\ warnings = 0
    /\ exc = NoExc
    /\ ret = None
    /\ log = <<>>
    /\ gens = <<>>
    /\ pool = <<>>

\* ------------------------------------------------------ run_trajectories

\* The caller calls fssh.run_trajectories(k), directly or through
\* unwrapped_run_trajectories(fssh, k); lines 136-137 set up the locals.
CallRun ==
    /\ pc = "idle"
    /\ \E e \in {"run_trajectories", "unwrapped_run_trajectories"}, k \in 0..MaxSamples :
          /\ entry' = e
          /\ n' = k
    /\ outcomes' = Zeros
    /\ traces' = <<>>
    /\ pc' = "run_for"
    /\ UNCHANGED <<gens, pool, inp, tm_arg, options, tm, nyield, params, trajs, traj_queue,
                   results_queue, warnings, exc, ret, log>>

\* Line 139, the loop head: the generator yields its next sample, or it is
\* exhausted and line 150 returns (outcomes, traces).
RunYield ==
    /\ pc = "run_for"
    /\ \/ /\ nyield < n
          /\ \E p \in ParamChoices(nyield + 1) : params' = p
          /\ nyield' = nyield + 1
          /\ pc' = "run_construct"
          /\ UNCHANGED ret
       \/ /\ ret' = <<"tuple", outcomes, traces>>
          /\ pc' = IF entry = "run_trajectories" THEN "returned" ELSE "unwrapped_return"
          /\ UNCHANGED <<params, nyield>>
    /\ UNCHANGED <<gens, pool, inp, tm_arg, options, tm, entry, n, trajs, traj_queue, results_queue,
                   outcomes, traces, warnings, exc, log>>

\* A variant of lines 140-142 that spawns one tracer for the first trajectory
\* and hands the same handle to the later ones
RunConstructSharedTracer ==
    /\ pc = "run_construct"
    /\ options' = DictUpdate(options, params)
    /\ tm' = IF trajs = <<>> THEN SpawnTracer(tm) ELSE tm
    /\ trajs' = Append(trajs, NewTraj(params, options', tm'.spawned, None))
    /\ log' = (IF trajs = <<>> THEN Append(log, <<"spawn_tracer", Handle(tm)>>) ELSE log)
                 \o << <<"construct", Len(trajs) + 1>> >>
    /\ pc' = "run_simulate"
    /\ UNCHANGED <<gens, pool, inp, tm_arg, entry, n, nyield, params, traj_queue, results_queue,
                   outcomes, traces, warnings, exc, ret>>

\* Lines 140-142: traj_input is self.options itself, so update() changes
\* self.options; spawn_tracer() is evaluated as an argument, then the
\* trajectory is constructed with **traj_input.
RunConstruct ==
    /\ pc = "run_construct"
    /\ options' = DictUpdate(options, params)
    /\ tm' = SpawnTracer(tm)
    /\ trajs' = Append(trajs, NewTraj(params, options', Handle(tm), None))
    /\ log' = log \o << <<"spawn_tracer", Handle(tm)>>,
                        <<"construct", Len(trajs) + 1>> >>
    /\ pc' = "run_simulate"
    /\ UNCHANGED <<gens, pool, inp, tm_arg, entry, n, nyield, params, traj_queue, results_queue,
                   outcomes, traces, warnings, exc, ret>>

\* A variant of line 145 that puts the new trace first: traces.insert(0, trace)
AppendTraceFront(ts, t) == <<t>> \o ts

\* Line 145: traces.append(trace)
AppendTrace(ts, t) == Append(ts, t)

\* A variant of line 146 that assigns instead of adding: outcomes = traj.outcome()
AccumulateAssign(acc, v) == v

\* Line 146: outcomes += traj.outcome()
Accumulate(acc, v) == VecAdd(acc, v)

\* A variant of line 147 whose handler matches nothing simulate() raises
CaughtNothing(r) == FALSE

\* Line 147: the exceptions the inner handler catches
Caught(r) == r = "StillInteracting"

\* A variant of lines 143-149 that also merges the trace of a completed
\* trajectory into the trace manager
RunSimulateMerging ==
    /\ pc = "run_simulate"
    /\ LET i == Len(trajs) IN
       /\ \E r \in SimResults :
             /\ \E v \in (IF r = "ok" THEN OutcomeVecs ELSE {Zeros}) :
                   trajs' = [trajs EXCEPT ![i].result = r, ![i].outcome = v]
             /\ \/ /\ r = "ok"
                   /\ traces' = AppendTrace(traces, Trace(i))
                   /\ outcomes' = Accumulate(outcomes, trajs'[i].outcome)
                   /\ tm' = MergeTracer(tm, Trace(i))
                   /\ log' = log \o << <<"simulate", i>>, <<"merge_tracer", i>> >>
                   /\ pc' = "run_for"
                   /\ UNCHANGED <<warnings, exc>>
                \/ /\ r # "ok"
                   /\ Caught(r)
                   /\ warnings' = warnings + 1
                   /\ log' = Append(log, <<"simulate", i>>)
                   /\ pc' = "run_for"
                   /\ UNCHANGED <<traces, outcomes, exc, tm>>
                \/ /\ r # "ok"
                   /\ ~Caught(r)
                   /\ exc' = [type |-> r, at |-> pc]
                   /\ log' = Append(log, <<"simulate", i>>)
                   /\ pc' = "run_except"
                   /\ UNCHANGED <<traces, outcomes, warnings, tm>>
    /\ UNCHANGED <<gens, pool, inp, tm_arg, options, entry, n, nyield, params, traj_queue,
                   results_queue, ret>>

\* Lines 143-149: simulate() the trajectory just constructed.  On a normal
\* return its trace is appended and its outcome() added; StillInteracting is
\* caught here and reported on stderr; anything else leaves the inner try.
RunSimulate ==
    /\ pc = "run_simulate"
    /\ LET i == Len(trajs) IN
       /\ log' = Append(log, <<"simulate", i>>)
       /\ \E r \in SimResults :
             /\ \E v \in (IF r = "ok" THEN OutcomeVecs ELSE {Zeros}) :
                   trajs' = [trajs EXCEPT ![i].result = r, ![i].outcome = v]
             /\ \/ /\ r = "ok"
                   /\ traces' = AppendTrace(traces, Trace(i))
                   /\ outcomes' = Accumulate(outcomes, trajs'[i].outcome)
                   /\ pc' = "run_for"
                   /\ UNCHANGED <<warnings, exc>>
                \/ /\ r # "ok"
                   /\ Caught(r)
                   /\ warnings' = warnings + 1
                   /\ pc' = "run_for"
                   /\ UNCHANGED <<traces, outcomes, exc>>
                \/ /\ r # "ok"
                   /\ ~Caught(r)
                   /\ exc' = [type |-> r, at |-> pc]
                   /\ pc' = "run_except"
                   /\ UNCHANGED <<traces, outcomes, warnings>>
    /\ UNCHANGED <<gens, pool, inp, tm_arg, options, tm, entry, n, nyield, params, traj_queue,
                   results_queue, ret>>

\* A variant of lines 151-152 that returns the partial result instead of
\* raising again
RunExceptSwallow ==
    /\ pc = "run_except"
    /\ ret' = <<"tuple", outcomes, traces>>
    /\ pc' = IF entry = "run_trajectories" THEN "returned" ELSE "unwrapped_return"
    /\ UNCHANGED <<gens, pool, inp, tm_arg, options, tm, entry, n, nyield, params, trajs, traj_queue,
                   results_queue, outcomes, traces, warnings, exc, log>>

\* Lines 151-152: the outer handler of run_trajectories.  KeyboardInterrupt
\* is caught and raised again; any other exception matches no handler.
\* Either way the exception leaves run_trajectories.
RunExcept ==
    /\ pc = "run_except"
    /\ pc' = IF entry = "run_trajectories" THEN "raised" ELSE "unwrapped_except"
    /\ UNCHANGED <<gens, pool, inp, tm_arg, options, tm, entry, n, nyield, params, trajs, traj_queue,
                   results_queue, outcomes, traces, warnings, exc, ret, log>>

\* Line 217: unwrapped_run_trajectories returns what run_trajectories returned.
UnwrappedReturn ==
    /\ pc = "unwrapped_return"
    /\ pc' = "returned"
    /\ UNCHANGED <<gens, pool, inp, tm_arg, options, tm, entry, n, nyield, params, trajs, traj_queue,
                   results_queue, outcomes, traces, warnings, exc, ret, log>>

\* Lines 218-219: the handler of unwrapped_run_trajectories raises a
\* KeyboardInterrupt again; any other exception matches no handler.
UnwrappedExcept ==
    /\ pc = "unwrapped_except"
    /\ pc' = "raised"
    /\ UNCHANGED <<gens, pool, inp, tm_arg, options, tm, entry, n, nyield, params, trajs, traj_queue,
                   results_queue, outcomes, traces, warnings, exc, ret, log>>

\* ----------------------------------------------------------------- compute

\* Lines 160-165: compute() reads samples from self.options and creates the
\* two queues.
CallCompute ==
    /\ pc = "idle"
    /\ entry' = "compute"
    /\ n' = IntOf(options["samples"])
    /\ traj_queue' = <<>>
    /\ results_queue' = <<>>
    /\ pc' = "compute_for"
    /\ UNCHANGED <<gens, pool, inp, tm_arg, options, tm, nyield, params, trajs, outcomes, traces,
                   warnings, exc, ret, log>>

\* Line 173, the loop head: the generator yields its next sample, or it is
\* exhausted and the first drain loop starts.
ComputeYield ==
    /\ pc = "compute_for"
    /\ \/ /\ nyield < n
          /\ nyield < MaxSamples
          /\ \E p \in ParamChoices(nyield + 1) : params' = p
          /\ nyield' = nyield + 1
          /\ pc' = "compute_construct"
       \/ /\ pc' = "compute_simulate"
          /\ UNCHANGED <<params, nyield>>
    /\ UNCHANGED <<gens, pool, inp, tm_arg, options, tm, entry, n, trajs, traj_queue, results_queue,
                   outcomes, traces, warnings, exc, ret, log>>

\* Lines 174-178: as lines 140-142, with queue=traj_queue passed as well,
\* and the trajectory is put on traj_queue.
ComputeConstruct ==
    /\ pc = "compute_construct"
    /\ options' = DictUpdate(options, params)
    /\ tm' = SpawnTracer(tm)
    /\ trajs' = Append(trajs, NewTraj(params, options', Handle(tm), S("traj_queue")))
    /\ traj_queue' = Append(traj_queue, Len(trajs) + 1)
    /\ log' = log \o << <<"spawn_tracer", Handle(tm)>>,
                        <<"construct", Len(trajs) + 1>> >>
    /\ pc' = "compute_for"
    /\ UNCHANGED <<gens, pool, inp, tm_arg, entry, n, nyield, params, results_queue, outcomes,
                   traces, warnings, exc, ret>>

\* A variant of the loop tests of lines 180 and 189 that is always true:
\* while True, as in traj_runner
LoopTestAlways(q) == TRUE

\* Lines 180 and 189, the loop test: not queue.empty()
LoopTest(q) == q # <<>>

\* A variant of lines 180-183 on a last-in, first-out queue: the newest
\* trajectory is taken first
ComputeSimulateLifo ==
    /\ pc = "compute_simulate"
    /\ \/ /\ ~LoopTest(traj_queue)
          /\ pc' = "compute_merge"
          /\ UNCHANGED <<trajs, traj_queue, results_queue, exc, log>>
       \/ /\ LoopTest(traj_queue)
          /\ traj_queue # <<>>
          /\ LET i == traj_queue[Len(traj_queue)] IN
             /\ traj_queue' = SubSeq(traj_queue, 1, Len(traj_queue) - 1)
             /\ log' = Append(log, <<"simulate", i>>)
             /\ \E r \in SimResults :
                   /\ \E v \in (IF r = "ok" THEN OutcomeVecs ELSE {Zeros}) :
                         trajs' = [trajs EXCEPT ![i].result = r, ![i].outcome = v]
                   /\ \/ /\ r = "ok"
                         /\ results_queue' = Append(results_queue, Trace(i))
                         /\ pc' = "compute_simulate"
                         /\ UNCHANGED exc
                      \/ /\ r # "ok"
                         /\ exc' = [type |-> r, at |-> pc]
                         /\ pc' = "raised"
                         /\ UNCHANGED results_queue
    /\ UNCHANGED <<gens, pool, inp, tm_arg, options, tm, entry, n, nyield, params, outcomes, traces,
                   warnings, ret>>

\* A variant of lines 180-183 that merges each result as soon as simulate()
\* has returned it, instead of putting it on results_queue
ComputeSimulateMergeAtOnce ==
    /\ pc = "compute_simulate"
    /\ \/ /\ ~LoopTest(traj_queue)
          /\ pc' = "compute_merge"
          /\ UNCHANGED <<trajs, traj_queue, tm, exc, log>>
       \/ /\ LoopTest(traj_queue)
          /\ traj_queue # <<>>
          /\ LET i == Head(traj_queue) IN
             /\ traj_queue' = Tail(traj_queue)
             /\ \E r \in SimResults :
                   /\ \E v \in (IF r = "ok" THEN OutcomeVecs ELSE {Zeros}) :
                         trajs' = [trajs EXCEPT ![i].result = r, ![i].outcome = v]
                   /\ \/ /\ r = "ok"
                         /\ tm' = MergeTracer(tm, Trace(i))
                         /\ log' = log \o << <<"simulate", i>>, <<"merge_tracer", i>> >>
                         /\ pc' = "compute_simulate"
                         /\ UNCHANGED exc
                      \/ /\ r # "ok"
                         /\ exc' = [type |-> r, at |-> pc]
                         /\ log' = Append(log, <<"simulate", i>>)
                         /\ pc' = "raised"
                         /\ UNCHANGED tm
    /\ UNCHANGED <<gens, pool, inp, tm_arg, options, results_queue, entry, n, nyield, params,
                   outcomes, traces, warnings, ret>>

\* Lines 180-183: while traj_queue is not empty, get a trajectory, simulate
\* it and put the result on results_queue.  No handler surrounds simulate():
\* whatever it raises leaves compute().  A get() on an empty queue would
\* block for ever: no other thread puts anything.
ComputeSimulate ==
    /\ pc = "compute_simulate"
    /\ \/ /\ ~LoopTest(traj_queue)
          /\ pc' = "compute_merge"
          /\ UNCHANGED <<trajs, traj_queue, results_queue, exc, log>>
       \/ /\ LoopTest(traj_queue)
          /\ traj_queue = <<>>
          /\ pc' = "blocked"
          /\ UNCHANGED <<trajs, traj_queue, results_queue, exc, log>>
       \/ /\ LoopTest(traj_queue)
          /\ traj_queue # <<>>
          /\ LET i == Head(traj_queue) IN
             /\ traj_queue' = Tail(traj_queue)
             /\ log' = Append(log, <<"simulate", i>>)
             /\ \E r \in SimResults :
                   /\ \E v \in (IF r = "ok" THEN OutcomeVecs ELSE {Zeros}) :
                         trajs' = [trajs EXCEPT ![i].result = r, ![i].outcome = v]
                   /\ \/ /\ r = "ok"
                         /\ results_queue' = Append(results_queue, Trace(i))
                         /\ pc' = "compute_simulate"
                         /\ UNCHANGED exc
                      \/ /\ r # "ok"
                         /\ exc' = [type |-> r, at |-> pc]
                         /\ pc' = "raised"
                         /\ UNCHANGED results_queue
    /\ UNCHANGED <<gens, pool, inp, tm_arg, options, tm, entry, n, nyield, params, outcomes, traces,
                   warnings, ret>>

\* A variant of lines 189-191 whose loop stops one result early:
\* while results_queue.qsize() > 1
ComputeMergeDropLast ==
    /\ pc = "compute_merge"
    /\ \/ /\ Len(results_queue) <= 1
          /\ pc' = "compute_store"
          /\ UNCHANGED <<tm, results_queue, log>>
       \/ /\ Len(results_queue) > 1
          /\ tm' = MergeTracer(tm, Head(results_queue))
          /\ results_queue' = Tail(results_queue)
          /\ log' = Append(log, <<"merge_tracer", Head(results_queue)[2]>>)
          /\ pc' = "compute_merge"
    /\ UNCHANGED <<gens, pool, inp, tm_arg, options, entry, n, nyield, params, trajs, traj_queue,
                   outcomes, traces, warnings, exc, ret>>

\* Lines 189-191: while results_queue is not empty, get a result and merge it.
ComputeMerge ==
    /\ pc = "compute_merge"
    /\ \/ /\ ~LoopTest(results_queue)
          /\ pc' = "compute_store"
          /\ UNCHANGED <<tm, results_queue, log>>
       \/ /\ LoopTest(results_queue)
          /\ results_queue = <<>>
          /\ pc' = "blocked"
          /\ UNCHANGED <<tm, results_queue, log>>
       \/ /\ LoopTest(results_queue)
          /\ results_queue # <<>>
          /\ tm' = MergeTracer(tm, Head(results_queue))
          /\ results_queue' = Tail(results_queue)
          /\ log' = Append(log, <<"merge_tracer", Head(results_queue)[2]>>)
          /\ pc' = "compute_merge"
    /\ UNCHANGED <<gens, pool, inp, tm_arg, options, entry, n, nyield, params, trajs, traj_queue,
                   outcomes, traces, warnings, exc, ret>>

\* Lines 193-194: store the summary in tracemanager.outcomes, return the
\* trace manager.
ComputeStore ==
    /\ pc = "compute_store"
    /\ tm' = [tm EXCEPT !.outcomes = TMOutcome(tm)]
    /\ log' = Append(log, <<"outcome", 0>>)
    /\ ret' = <<"TraceManager">>
    /\ pc' = "returned"
    /\ UNCHANGED <<gens, pool, inp, tm_arg, options, entry, n, nyield, params, trajs, traj_queue,
                   results_queue, outcomes, traces, warnings, exc>>

\* --------------------------------------------------------------- interrupt

\* The positions inside a call, where the caller's thread is running it.
Active ==
    {"run_for", "run_construct", "run_simulate",
     "compute_for", "compute_construct", "compute_simulate", "compute_merge",
     "compute_store"}

\* A KeyboardInterrupt is raised in the running call, at whatever it was
\* doing: before the statement at pc, or part way through it (after
\* update() of lines 141/175, after spawn_tracer() of lines 142/176, or inside
\* simulate() of lines 144/182).  In run_trajectories every statement is
\* inside the try of line 138, so the handler of line 151 gets it; compute()
\* has no handler.
KeyboardInterrupt ==
    /\ pc \in Active
    /\ exc' = [type |-> "KeyboardInterrupt", at |-> pc]
    /\ pc' = IF entry = "compute" THEN "raised" ELSE "run_except"
    /\ \/ UNCHANGED <<options, tm, trajs, traj_queue, log>>
       \/ /\ pc \in {"run_construct", "compute_construct"}
          /\ options' = DictUpdate(options, params)
          /\ UNCHANGED <<tm, trajs, traj_queue, log>>
       \/ /\ pc \in {"run_construct", "compute_construct"}
          /\ options' = DictUpdate(options, params)
          /\ tm' = SpawnTracer(tm)
          /\ log' = Append(log, <<"spawn_tracer", Handle(tm)>>)
          /\ UNCHANGED <<trajs, traj_queue>>
       \/ /\ pc = "run_simulate"
          /\ trajs' = [trajs EXCEPT ![Len(trajs)].result = "KeyboardInterrupt"]
          /\ log' = Append(log, <<"simulate", Len(trajs)>>)
          /\ UNCHANGED <<options, tm, traj_queue>>
       \/ /\ pc = "compute_simulate"
          /\ traj_queue # <<>>
          /\ traj_queue' = Tail(traj_queue)
          /\ trajs' = [trajs EXCEPT ![Head(traj_queue)].result = "KeyboardInterrupt"]
          /\ log' = Append(log, <<"simulate", Head(traj_queue)>>)
          /\ UNCHANGED <<options, tm>>
    /\ UNCHANGED <<gens, pool, inp, tm_arg, entry, n, nyield, params, results_queue, outcomes,
                   traces, warnings, ret>>

\* -------------------------------------------------------------------- Next

Next ==
    \/ CallRun
    \/ RunYield
    \/ RunConstruct
    \/ RunSimulate
    \/ RunExcept
    \/ UnwrappedReturn
    \/ UnwrappedExcept
    \/ CallCompute
    \/ ComputeYield
    \/ ComputeConstruct
    \/ ComputeSimulate
    \/ ComputeMerge
    \/ ComputeStore
    \/ KeyboardInterrupt

Spec == Init /\ [][Next]_vars

\* --------------------------------------------------- the constructor call

\* The keyword arguments a caller can pass, each with the values it can have
\* (None included: a key passed as None is still a key of inp).
InpValues ==
    [initial_time |-> {F(3), None},
     samples |-> {I(7), None},
     dt |-> {F(5), F(20)},
     nprocs |-> {I(4), None},
     outcome_type |-> {S("populations"), None},
     max_time |-> {F(100), None},
     seed_sequence |-> {Seed(0), None}]

\* Every keyword mapping over a set of those keys.
RECURSIVE Mappings(_)
Mappings(keys) ==
    IF keys = {} THEN {EmptyDict}
    ELSE LET k == CHOOSE x \in keys : TRUE
             rest == Mappings(keys \ {k})
         IN  rest \cup {DictSet(m, k, v) : m \in rest, v \in InpValues[k]}

InpArgs == Mappings(DOMAIN InpValues)

\* BatchedTraj(model, traj_gen, trajectory_type, tracemanager, **inp) is about
\* to run; nothing of the object is set yet.
InitNew ==
    /\ inp \in InpArgs
    /\ tm_arg \in TraceManagerArgs
    /\ options = EmptyDict
    /\ tm = NewTraceManager
    /\ entry = "none"
    /\ n = 0
    /\ pc = "new"
    /\ nyield = 0
    /\ params = EmptyDict
    /\ trajs = <<>>
    /\ traj_queue = <<>>
    /\ results_queue = <<>>
    /\ outcomes = Zeros
    /\ traces = <<>>
    /\ warnings = 0
    /\ exc = NoExc
    /\ ret = None
    /\ log = <<>>
    /\ gens = <<>>
    /\ pool = <<>>

\* BatchedTraj.__init__ (lines 107-129)
BatchedTrajInit ==
    /\ pc = "new"
    /\ tm' = InitialTraceManager(tm_arg)
    /\ options' = BatchedTrajOptions(inp)
    /\ pc' = "idle"
    /\ UNCHANGED <<gens, pool, inp, tm_arg, entry, n, nyield, params, trajs,
                   traj_queue, results_queue, outcomes, traces, warnings, exc,
                   ret, log>>

NextNew == BatchedTrajInit

SpecInit == InitNew /\ [][NextNew]_vars

\* ---------------------------------------------------------------- samplers

\* The largest nsamples a sampler is called with.
MaxGenN == 3

\* The variables of the batch controller, which the samplers and the workers
\* leave alone.
batch_vars == <<inp, tm_arg, options, tm, entry, n, pc, nyield, params, trajs,
                traj_queue, results_queue, outcomes, traces, warnings, exc, ret, log>>

\* The controller, constructed and never called.
BatchIdle ==
    /\ inp = EmptyDict
    /\ tm_arg = None
    /\ options = BatchedTrajOptions(inp)
    /\ tm = InitialTraceManager(tm_arg)
    /\ entry = "none"
    /\ n = 0
    /\ pc = "idle"
    /\ nyield = 0
    /\ params = EmptyDict
    /\ trajs = <<>>
    /\ traj_queue = <<>>
    /\ results_queue = <<>>
    /\ outcomes = Zeros
    /\ traces = <<>>
    /\ warnings = 0
    /\ exc = NoExc
    /\ ret = None
    /\ log = <<>>

\* The seed arguments a sampler is constructed with.
SeedArgs == {None, I(1), I(2)}

\* The entropy np.random.SeedSequence(None) can draw from the operating system.
OSEntropy == {I(101), I(102)}

\* np.random.SeedSequence(seed): the given entropy, or fresh entropy ent when
\* seed is None; no spawn key, no children spawned yet.
SeedSequence(seed, ent) ==
    [entropy |-> IF seed = None THEN ent ELSE seed, spawn_key |-> <<>>, nspawned |-> 0]

\* SeedSequence.spawn(k): the k children, each with the parent's entropy and
\* the parent's spawn key extended by the child's number, counted on from the
\* children the parent spawned before ...
SpawnChildren(ss, k) ==
    [j \in 1..k |->
        [entropy |-> ss.entropy,
         spawn_key |-> Append(ss.spawn_key, ss.nspawned + j - 1),
         nspawned |-> 0]]

\* ... and the parent after the call.
AfterSpawn(ss, k) == [ss EXCEPT !.nspawned = @ + k]

\* TrajGenConst.__init__ (lines 28-32)
TrajGenConst(position, momentum, initial_state, seed, ent) ==
    [kind |-> "TrajGenConst", position |-> position, momentum |-> momentum,
     initial_state |-> initial_state,
     position_deviation |-> None, momentum_deviation |-> None,
     seed |-> seed, seed_sequence |-> SeedSequence(seed, ent),
     pc |-> "constructed", nsamples |-> 0, i |-> 0, seedseqs |-> <<>>,
     out |-> <<>>, at |-> <<>>, draws |-> <<>>]

\* TrajGenNormal.__init__ (lines 45-59); a deviation is the fraction <<p, q>>:
\* 0.5 * sigma is <<sigma, 2>> and 1.0 / sigma is <<1, sigma>>.
TrajGenNormal(position, momentum, initial_state, sigma, seed, ent) ==
    [kind |-> "TrajGenNormal", position |-> position, momentum |-> momentum,
     initial_state |-> initial_state,
     position_deviation |-> <<sigma, 2>>, momentum_deviation |-> <<1, sigma>>,
     seed |-> seed, seed_sequence |-> SeedSequence(seed, ent),
     pc |-> "constructed", nsamples |-> 0, i |-> 0, seedseqs |-> <<>>,
     out |-> <<>>, at |-> <<>>, draws |-> <<>>]

\* The values self.random_state.normal(...) can return for a position and for
\* a momentum.
PositionDraws == {0, 1}
MomentumDraws == {-1, 0, 1}

\* TrajGenNormal.kskip (lines 61-67)
Kskip(ktest) == ktest < 0

\* The sampler objects studied together: two TrajGenConst constructed
\* independently of each other, or one TrajGenNormal.
GenScenarios ==
    { << TrajGenConst(0, 1, 0, s1, e1), TrajGenConst(0, 1, 0, s2, e2) >> :
          s1 \in SeedArgs, s2 \in SeedArgs, e1 \in OSEntropy, e2 \in OSEntropy }
    \cup
    { << TrajGenNormal(0, 1, 0, sg, s, e) >> :
          sg \in {1, 2}, s \in SeedArgs, e \in OSEntropy }

InitGen ==
    /\ BatchIdle
    /\ gens \in GenScenarios
    /\ pool = <<>>

\* gen(nsamples): calling the object makes a generator; none of its body has
\* run yet (lines 34, 69).
GenCall(g) ==
    /\ gens[g].pc = "constructed"
    /\ \E k \in 0..MaxGenN :
          gens' = [gens EXCEPT ![g].pc = "created", ![g].nsamples = k]
    /\ UNCHANGED <<batch_vars, pool>>

\* Lines 39 and 73, on the first next(): the per-sample seed sequences are
\* spawned, all nsamples of them at once.
GenSpawn(g) ==
    /\ gens[g].pc = "created"
    /\ gens' = [gens EXCEPT
                   ![g].seedseqs = SpawnChildren(gens[g].seed_sequence, gens[g].nsamples),
                   ![g].seed_sequence = AfterSpawn(@, gens[g].nsamples),
                   ![g].pc = "loop"]
    /\ UNCHANGED <<batch_vars, pool>>

\* A variant of lines 40-41 that attaches the first seed sequence to every
\* sample: seedseqs[0]
TrajGenConstIterFirstSeed(g) ==
    /\ gens[g].kind = "TrajGenConst"
    /\ gens[g].pc = "loop"
    /\ LET o == gens[g] IN
       IF o.i < o.nsamples
       THEN gens' = [gens EXCEPT
                ![g].out = Append(@, <<o.position, o.momentum, o.initial_state,
                                       [seed_sequence |-> o.seedseqs[1]]>>),
                ![g].at = Append(@, o.i),
                ![g].i = o.i + 1]
       ELSE gens' = [gens EXCEPT ![g].pc = "done"]
    /\ UNCHANGED <<batch_vars, pool>>

\* Lines 40-41: one turn of the loop of TrajGenConst.__call__, or its end.
\* The loop index i counts from 0; seedseqs[i] is the (i+1)-th element here.
TrajGenConstIter(g) ==
    /\ gens[g].kind = "TrajGenConst"
    /\ gens[g].pc = "loop"
    /\ LET o == gens[g] IN
       IF o.i < o.nsamples
       THEN gens' = [gens EXCEPT
                ![g].out = Append(@, <<o.position, o.momentum, o.initial_state,
                                       [seed_sequence |-> o.seedseqs[o.i + 1]]>>),
                ![g].at = Append(@, o.i),
                ![g].i = o.i + 1]
       ELSE gens' = [gens EXCEPT ![g].pc = "done"]
    /\ UNCHANGED <<batch_vars, pool>>

\* A variant of lines 74-79 without the continue of line 78
TrajGenNormalIterNoSkip(g) ==
    /\ gens[g].kind = "TrajGenNormal"
    /\ gens[g].pc = "loop"
    /\ LET o == gens[g] IN
       IF o.i < o.nsamples
       THEN \E x \in PositionDraws, k \in MomentumDraws :
               gens' = [gens EXCEPT
                   ![g].draws = Append(@, <<x, k>>),
                   ![g].out = Append(@, <<x, k, o.initial_state,
                                          [seed_sequence |-> o.seedseqs[o.i + 1]]>>),
                   ![g].at = Append(@, o.i),
                   ![g].i = o.i + 1]
       ELSE gens' = [gens EXCEPT ![g].pc = "done"]
    /\ UNCHANGED <<batch_vars, pool>>

\* A variant of lines 74-79 that numbers the seed sequences by the samples
\* yielded so far instead of by the loop index
TrajGenNormalIterSeedByYield(g) ==
    /\ gens[g].kind = "TrajGenNormal"
    /\ gens[g].pc = "loop"
    /\ LET o == gens[g] IN
       IF o.i < o.nsamples
       THEN \E x \in PositionDraws, k \in MomentumDraws :
               gens' = [gens EXCEPT
                   ![g].draws = Append(@, <<x, k>>),
                   ![g].out = IF Kskip(k) THEN @
                              ELSE Append(@, <<x, k, o.initial_state,
                                     [seed_sequence |-> o.seedseqs[Len(o.out) + 1]]>>),
                   ![g].at = IF Kskip(k) THEN @ ELSE Append(@, o.i),
                   ![g].i = o.i + 1]
       ELSE gens' = [gens EXCEPT ![g].pc = "done"]
    /\ UNCHANGED <<batch_vars, pool>>

\* Lines 74-79: one turn of the loop of TrajGenNormal.__call__, or its end:
\* a position and a momentum are drawn, and the sample is yielded with
\* seedseqs[i] unless kskip rejects the momentum.
TrajGenNormalIter(g) ==
    /\ gens[g].kind = "TrajGenNormal"
    /\ gens[g].pc = "loop"
    /\ LET o == gens[g] IN
       IF o.i < o.nsamples
       THEN \E x \in PositionDraws, k \in MomentumDraws :
               gens' = [gens EXCEPT
                   ![g].draws = Append(@, <<x, k>>),
                   ![g].out = IF Kskip(k) THEN @
                              ELSE Append(@, <<x, k, o.initial_state,
                                     [seed_sequence |-> o.seedseqs[o.i + 1]]>>),
                   ![g].at = IF Kskip(k) THEN @ ELSE Append(@, o.i),
                   ![g].i = o.i + 1]
       ELSE gens' = [gens EXCEPT ![g].pc = "done"]
    /\ UNCHANGED <<batch_vars, pool>>

NextGen ==
    \/ \E g \in 1..Len(gens) : GenCall(g)
    \/ \E g \in 1..Len(gens) : GenSpawn(g)
    \/ \E g \in 1..Len(gens) : TrajGenConstIter(g)
    \/ \E g \in 1..Len(gens) : TrajGenNormalIter(g)

SpecGen == InitGen /\ [][NextGen]_vars

\* ------------------------------------------------------------- worker pool
\*
\* traj_runner (lines 196-207), run by the workers of the pool that compute()
\* has in comments (lines 167-171 and 185-187): the caller starts the workers,
\* puts the work items on traj_queue and waits in traj_queue.join().  The
\* queue is a joinable queue: put() adds one to its count of unfinished
\* tasks, task_done() takes one off, join() returns when the count is zero.

\* The largest number of workers and of work items.
MaxWorkers == 2
MaxItems == 3

\* The work items a caller puts: trajectories and None, in every order.
ItemKinds == {"traj", "None"}
ItemLists == UNION {[1..k -> ItemKinds] : k \in 1..MaxItems}

\* Line 169: nprocs workers, each at the top of its loop; nothing queued yet.
NewPool(nprocs, items) ==
    [ nprocs     |-> nprocs,
      items      |-> items,
      nput       |-> 0,
      caller     |-> "put",
      queue      |-> <<>>,
      unfinished |-> 0,
      results    |-> <<>>,
      wpc        |-> [w \in 1..nprocs |-> "get"],
      held       |-> [w \in 1..nprocs |-> 0],
      taken      |-> [k \in 1..Len(items) |-> {}],
      simulated  |-> [k \in 1..Len(items) |-> 0],
      raised     |-> {},
      done       |-> [k \in 1..Len(items) |-> 0] ]

InitPool ==
    /\ BatchIdle
    /\ gens = <<>>
    /\ \E nprocs \in 1..MaxWorkers, items \in ItemLists : pool = NewPool(nprocs, items)

\* Line 178, traj_queue.put(traj): the caller puts its next item; the count
\* of unfinished tasks goes up by one.
PoolPut ==
    /\ pool.caller = "put"
    /\ LET k == pool.nput + 1 IN
          pool' = [pool EXCEPT !.nput = k,
                               !.queue = Append(@, k),
                               !.unfinished = @ + 1,
                               !.caller = IF k = Len(pool.items) THEN "join" ELSE "put"]
    /\ UNCHANGED <<batch_vars, gens>>

\* Line 185, traj_queue.join(): returns once no task is unfinished.
PoolJoin ==
    /\ pool.caller = "join"
    /\ pool.unfinished = 0
    /\ pool' = [pool EXCEPT !.caller = "joined"]
    /\ UNCHANGED <<batch_vars, gens>>

\* A variant of lines 202-206 with task_done() inside the if: a None item is
\* dropped without it
WorkerGetNoneDropped(w) ==
    /\ w \in 1..pool.nprocs
    /\ pool.wpc[w] = "get"
    /\ pool.queue # <<>>
    /\ LET k == Head(pool.queue) IN
          pool' = [pool EXCEPT !.queue = Tail(@),
                               !.held[w] = IF pool.items[k] = "None" THEN 0 ELSE k,
                               !.taken[k] = @ \cup {w},
                               !.wpc[w] = IF pool.items[k] = "None"
                                          THEN "get" ELSE "simulate"]
    /\ UNCHANGED <<batch_vars, gens>>

\* Lines 202-203: traj = traj_queue.get(), which waits while the queue is
\* empty; a None item goes straight to task_done().
WorkerGet(w) ==
    /\ w \in 1..pool.nprocs
    /\ pool.wpc[w] = "get"
    /\ pool.queue # <<>>
    /\ LET k == Head(pool.queue) IN
          pool' = [pool EXCEPT !.queue = Tail(@),
                               !.held[w] = k,
                               !.taken[k] = @ \cup {w},
                               !.wpc[w] = IF pool.items[k] = "None"
                                          THEN "task_done" ELSE "simulate"]
    /\ UNCHANGED <<batch_vars, gens>>

\* A variant of line 204 inside try/finally: when simulate() raises,
\* task_done() is still called and the worker goes on
WorkerSimulateFinally(w) ==
    /\ w \in 1..pool.nprocs
    /\ pool.wpc[w] = "simulate"
    /\ \E r \in SimResults :
          pool' = [pool EXCEPT !.simulated[pool.held[w]] = @ + 1,
                               !.raised = IF r = "ok" THEN @ ELSE @ \cup {pool.held[w]},
                               !.wpc[w] = IF r = "ok" THEN "put" ELSE "task_done"]
    /\ UNCHANGED <<batch_vars, gens>>

\* Line 204: results = traj.simulate().  Nothing in traj_runner catches what
\* it raises: the exception ends the worker, which still holds its item.
WorkerSimulate(w) ==
    /\ w \in 1..pool.nprocs
    /\ pool.wpc[w] = "simulate"
    /\ \E r \in SimResults :
          pool' = [pool EXCEPT !.simulated[pool.held[w]] = @ + 1,
                               !.raised = IF r = "ok" THEN @ ELSE @ \cup {pool.held[w]},
                               !.wpc[w] = IF r = "ok" THEN "put" ELSE "dead"]
    /\ UNCHANGED <<batch_vars, gens>>

\* Line 205: results_queue.put(results).
WorkerPut(w) ==
    /\ w \in 1..pool.nprocs
    /\ pool.wpc[w] = "put"
    /\ pool' = [pool EXCEPT !.results = Append(@, Trace(pool.held[w])),
                            !.wpc[w] = "task_done"]
    /\ UNCHANGED <<batch_vars, gens>>

\* Line 206: traj_queue.task_done(), then back to the top of the loop.
WorkerTaskDone(w) ==
    /\ w \in 1..pool.nprocs
    /\ pool.wpc[w] = "task_done"
    /\ pool' = [pool EXCEPT !.unfinished = @ - 1,
                            !.done[pool.held[w]] = @ + 1,
                            !.held[w] = 0,
                            !.wpc[w] = "get"]
    /\ UNCHANGED <<batch_vars, gens>>

\* One step of worker w.
WorkerStep(w) ==
    \/ WorkerGet(w)
    \/ WorkerSimulate(w)
    \/ WorkerPut(w)
    \/ WorkerTaskDone(w)

NextPool ==
    \/ PoolPut
    \/ PoolJoin
    \/ \E w \in 1..MaxWorkers : WorkerGet(w)
    \/ \E w \in 1..MaxWorkers : WorkerSimulate(w)
    \/ \E w \in 1..MaxWorkers : WorkerPut(w)
    \/ \E w \in 1..MaxWorkers : WorkerTaskDone(w)

\* The caller and every worker is a thread of its own that the scheduler
\* runs again and again: one that can take a step does so in the end.
SpecPool ==
    /\ InitPool
    /\ [][NextPool]_vars
    /\ WF_vars(PoolPut)
    /\ WF_vars(PoolJoin)
    /\ \A w \in 1..MaxWorkers : WF_vars(WorkerStep(w))

\* ------------------------------------------------------------------ claims

RunEntries == {"run_trajectories", "unwrapped_run_trajectories"}

\* The trace manager as it was when the call started.
Before == InitialTraceManager(tm_arg)

\* The trajectories whose simulate() returned normally, and those whose
\* simulate() raised StillInteracting.
Completed == {i \in 1..Len(trajs) : trajs[i].result = "ok"}
Excluded == {i \in 1..Len(trajs) : trajs[i].result = "StillInteracting"}

\* The elementwise sum of outcome() over a set of trajectories, taken in no
\* particular order.
RECURSIVE SumOver(_)
SumOver(idx) ==
    IF idx = {} THEN Zeros
    ELSE LET i == CHOOSE j \in idx : TRUE
         IN  VecAdd(trajs[i].outcome, SumOver(idx \ {i}))

\* The traces of the completed trajectories among the first k, in the order
\* of construction.
RECURSIVE TracesUpTo(_)
TracesUpTo(k) ==
    IF k = 0 THEN <<>>
    ELSE IF trajs[k].result = "ok" THEN Append(TracesUpTo(k - 1), Trace(k))
         ELSE TracesUpTo(k - 1)

\* How many times an event occurs in the log.
Count(ev) == Cardinality({j \in 1..Len(log) : log[j] = ev})

\* C1: the aggregate run_trajectories(n) returns is the elementwise sum of
\* outcome() over exactly the trajectories whose simulate() returned normally,
\* each counted once and the excluded ones not at all; it is a function of
\* that set alone, so the order of the samples does not matter.  The running
\* total is that sum at every loop head as well.
C1_AggregateIsSum ==
    entry \in RunEntries =>
        /\ pc \in {"run_for", "unwrapped_return", "returned"} =>
              outcomes = SumOver(Completed)
        /\ ret # None => ret[2] = SumOver(Completed)

\* C1 witness: a call returned after two trajectories completed with
\* different outcome arrays and a third one was excluded.
C1_Witness ==
    /\ entry \in RunEntries
    /\ pc = "returned"
    /\ Excluded # {}
    /\ \E i, j \in Completed : trajs[i].outcome # trajs[j].outcome

\* C2: the trace sequence run_trajectories(n) returns holds exactly one trace
\* for each trajectory whose simulate() returned normally, in the order the
\* sampler yielded the samples, and none for a trajectory that raised
\* StillInteracting; with M samples and K exclusions its length is M - K.
C2_TracesAreCompleted ==
    (entry \in RunEntries /\ ret # None) =>
        /\ ret[3] = TracesUpTo(Len(trajs))
        /\ Len(ret[3]) = nyield - Cardinality(Excluded)

\* C2 witness: a call returned two traces, with an excluded trajectory
\* between the two completed ones.
C2_Witness ==
    /\ entry \in RunEntries
    /\ pc = "returned"
    /\ Len(trajs) >= 3
    /\ trajs[1].result = "ok"
    /\ trajs[2].result = "StillInteracting"
    /\ trajs[3].result = "ok"

\* C3: in run_trajectories a StillInteracting never leaves the call; at every
\* loop head and at the return every sample yielded so far has been
\* constructed and simulated exactly once, one warning was written per
\* exclusion, and the loop head can always take its next step.
C3_StillInteractingHandled ==
    entry \in RunEntries =>
        /\ exc.type # "StillInteracting"
        /\ warnings = Cardinality(Excluded)
        /\ pc \in {"run_for", "unwrapped_return", "returned"} =>
              /\ Len(trajs) = nyield
              /\ \A i \in 1..nyield :
                    Count(<<"construct", i>>) = 1 /\ Count(<<"simulate", i>>) = 1
        /\ pc = "run_for" => ENABLED RunYield
        /\ pc = "returned" => ret # None

\* C3 witness: a call returned normally although every one of its
\* trajectories, more than one, raised StillInteracting.
C3_Witness ==
    /\ entry \in RunEntries
    /\ pc = "returned"
    /\ nyield >= 2
    /\ Cardinality(Excluded) = nyield

\* C4: a KeyboardInterrupt raised inside run_trajectories (called directly or
\* through unwrapped_run_trajectories) propagates: from then on no result is
\* returned, no further sample is taken, no trajectory is constructed or
\* simulated, and no StillInteracting warning is written for it.
C4_InterruptPropagates ==
    /\ [](  (entry \in RunEntries /\ exc.type = "KeyboardInterrupt") =>
               (ret = None /\ pc \in {"run_except", "unwrapped_except", "raised"}))
    /\ [][ (entry \in RunEntries /\ exc.type = "KeyboardInterrupt") =>
               UNCHANGED <<exc, ret, nyield, trajs, log, warnings, tm>> ]_vars

\* C4 witness: the interrupt came while a trajectory was being simulated, with
\* samples still to come, and reached the caller of the wrapper.
C4_Witness ==
    /\ entry = "unwrapped_run_trajectories"
    /\ pc = "raised"
    /\ exc = [type |-> "KeyboardInterrupt", at |-> "run_simulate"]
    /\ trajs # <<>>
    /\ nyield < n

\* C5 (as claimed): in compute() a trajectory whose simulate() raises
\* StillInteracting does not abort the batch, so a StillInteracting never
\* leaves compute().
C5_ComputeSurvivesStillInteracting ==
    (entry = "compute" /\ pc = "raised") => exc.type # "StillInteracting"

\* C6 (as claimed): BatchedTraj.options always has exactly the keys and
\* values it had after construction.
C6_OptionsUnchanged == options = BatchedTrajOptions(inp)

\* C7 (as claimed): every trajectory is constructed with exactly the
\* construction-time options overridden by its own sample's params.
C7_OwnOverridesOnly ==
    \A i \in 1..Len(trajs) :
        trajs[i].opts = DictUpdate(BatchedTrajOptions(inp), trajs[i].params)

\* The traces of the first k trajectories, one each, in order.
AllTraces(k) == [i \in 1..k |-> Trace(i)]

\* C8: in compute(), once the first drain loop has ended (every simulate()
\* returned normally), the results merged so far followed by those still on
\* results_queue are the traces of all the trajectories built, one each; the
\* merge loop leaves the queue empty, so merge_tracer() was called exactly
\* once per sample yielded, with that trajectory's own result.
C8_MergeOncePerTrajectory ==
    (entry = "compute" /\ pc \in {"compute_merge", "compute_store", "returned"}) =>
        /\ Len(trajs) = nyield
        /\ Completed = 1..nyield
        /\ tm.traces \o results_queue = Before.traces \o AllTraces(nyield)
        /\ pc # "compute_merge" => results_queue = <<>>
        /\ \A i \in 1..nyield :
              Count(<<"merge_tracer", i>>) =
                  IF i <= Len(tm.traces) - Len(Before.traces) THEN 1 ELSE 0

\* C8 witness: compute() returned after merging the results of at least two
\* trajectories.
C8_Witness ==
    /\ entry = "compute"
    /\ pc = "returned"
    /\ nyield >= 2
    /\ Len(tm.traces) = Len(Before.traces) + nyield

\* C9 (as claimed): when run_trajectories returns, merge_tracer() has been
\* called exactly once for each completed trajectory and for no other.
C9_RunMergesCompleted ==
    (entry \in RunEntries /\ ret # None) =>
        /\ tm.traces = Before.traces \o TracesUpTo(Len(trajs))
        /\ \A i \in 1..Len(trajs) :
              Count(<<"merge_tracer", i>>) = IF i \in Completed THEN 1 ELSE 0

\* C9 (amended): run_trajectories never calls merge_tracer(): at every point
\* of the call the trace manager's merged traces and stored outcomes are what
\* they were before it, whether a trajectory completed or raised
\* StillInteracting; the completed traces go to the returned sequence only.
C9_RunNeverMerges ==
    entry \in RunEntries =>
        /\ tm.traces = Before.traces
        /\ tm.outcomes = Before.outcomes
        /\ \A j \in 1..Len(log) : log[j][1] # "merge_tracer"

\* C9 witness: the call returned the trace of a completed trajectory, after
\* another trajectory was excluded.
C9_Witness ==
    /\ entry \in RunEntries
    /\ pc = "returned"
    /\ Completed # {}
    /\ Excluded # {}
    /\ Len(ret[3]) = Cardinality(Completed)

\* The positions in the code at which every sample yielded so far has been
\* turned into a trajectory.
Built ==
    {"run_for", "run_simulate", "unwrapped_return", "returned",
     "compute_for", "compute_simulate", "compute_merge", "compute_store"}

\* The number of spawn_tracer() calls of this batch.
Spawns == Cardinality({j \in 1..Len(log) : log[j][1] = "spawn_tracer"})

\* C10: in run_trajectories and in compute(), spawn_tracer() is called once
\* per sample yielded (never more; all calls made once the sample has become
\* a trajectory); trajectory i holds the handle of the i-th call and no two
\* trajectories share a handle; and every simulate() of a trajectory comes
\* after the spawn_tracer() call that made its handle, also for the
\* trajectories that raise StillInteracting.
C10_SpawnPerTrajectory ==
    /\ Spawns = tm.spawned - Before.spawned
    /\ Len(trajs) <= Spawns /\ Spawns <= nyield
    /\ pc \in Built => (Len(trajs) = nyield /\ Spawns = nyield)
    /\ \A i \in 1..Len(trajs) :
          /\ trajs[i].tracer = Before.spawned + i
          /\ Count(<<"spawn_tracer", trajs[i].tracer>>) = 1
          /\ \A k \in 1..Len(trajs) : trajs[k].tracer = trajs[i].tracer => k = i
          /\ \A b \in 1..Len(log) :
                log[b] = <<"simulate", i>> =>
                    \E a \in 1..(b - 1) : log[a] = <<"spawn_tracer", trajs[i].tracer>>

\* C10 witness: two trajectories were simulated, each with its own tracer,
\* and one of them raised StillInteracting.
C10_Witness ==
    /\ Len(trajs) >= 2
    /\ Excluded # {}
    /\ Completed # {}
    /\ Count(<<"simulate", 1>>) = 1
    /\ Count(<<"simulate", 2>>) = 1

\* The seed tokens a sampler object has yielded, in order.
Tokens(o) == [m \in 1..Len(o.out) |-> o.out[m][4]["seed_sequence"]]

\* A sequence without a repeated element.
Distinct(sq) == \A a, b \in 1..Len(sq) : sq[a] = sq[b] => a = b

\* C11: a TrajGenConst called with nsamples = n yields exactly n initial
\* conditions, all with the position, momentum and state it was constructed
\* with, and with pairwise distinct seed tokens; two TrajGenConst constructed
\* independently with the same master seed and called with the same n yield
\* the same token sequence.
C11_ConstReproducible ==
    \A g \in 1..Len(gens) :
        gens[g].kind = "TrajGenConst" =>
            LET o == gens[g] IN
            /\ Len(o.out) <= o.nsamples
            /\ o.pc = "done" => Len(o.out) = o.nsamples
            /\ \A m \in 1..Len(o.out) :
                  /\ o.out[m][1] = o.position
                  /\ o.out[m][2] = o.momentum
                  /\ o.out[m][3] = o.initial_state
            /\ Distinct(Tokens(o))
            /\ \A h \in 1..Len(gens) :
                  (/\ gens[h].kind = "TrajGenConst"
                   /\ o.seed # None
                   /\ gens[h].seed = o.seed
                   /\ gens[h].nsamples = o.nsamples
                   /\ gens[h].pc = "done"
                   /\ o.pc = "done") => Tokens(gens[h]) = Tokens(o)

\* C11 witness: two TrajGenConst with the same master seed have both yielded
\* all their samples, at least two each.
C11_Witness ==
    /\ Len(gens) = 2
    /\ gens[1].kind = "TrajGenConst"
    /\ gens[1].seed # None
    /\ gens[1].seed = gens[2].seed
    /\ gens[1].pc = "done" /\ gens[2].pc = "done"
    /\ Len(gens[1].out) >= 2
    /\ Len(gens[2].out) = Len(gens[1].out)

\* C12: a TrajGenNormal called with nsamples = n yields at most n initial
\* conditions (never more than it has drawn), and no yielded momentum is one
\* kskip rejects: with the predicate of line 67 every yielded momentum is >= 0.
C12_NormalRejects ==
    \A g \in 1..Len(gens) :
        gens[g].kind = "TrajGenNormal" =>
            LET o == gens[g] IN
            /\ Len(o.out) <= o.i
            /\ o.i <= o.nsamples
            /\ \A m \in 1..Len(o.out) : ~Kskip(o.out[m][2]) /\ o.out[m][2] >= 0

\* C12 witness: a finished call that yielded a sample and rejected another,
\* so fewer than n came out.
C12_Witness ==
    \E g \in 1..Len(gens) :
        /\ gens[g].kind = "TrajGenNormal"
        /\ gens[g].pc = "done"
        /\ Len(gens[g].out) >= 1
        /\ Len(gens[g].out) < gens[g].nsamples
        /\ \E j \in 1..Len(gens[g].draws) : Kskip(gens[g].draws[j][2])

\* The seed sequence a sampler object was constructed with.
Master(o) == [o.seed_sequence EXCEPT !.nspawned = 0]

\* The token spawned from the master seed for loop index j (counted from 0)
\* of a call with nsamples = k.
TokenAt(o, j) == SpawnChildren(Master(o), o.nsamples)[j + 1]

\* C15: in TrajGenNormal.__call__ the sample yielded at loop index i carries
\* the token spawned for index i from the master seed, whatever was drawn and
\* whatever was rejected before; all nsamples tokens are spawned at once, so a
\* rejected index uses its token up: no yielded sample carries it; and the
\* yielded tokens are pairwise distinct.
C15_TokenByLoopIndex ==
    \A g \in 1..Len(gens) :
        gens[g].kind = "TrajGenNormal" =>
            LET o == gens[g] IN
            /\ o.pc \in {"loop", "done"} => o.seed_sequence.nspawned = o.nsamples
            /\ Len(o.at) = Len(o.out)
            /\ \A m \in 1..Len(o.out) :
                  /\ o.at[m] \in 0..(o.i - 1)
                  /\ <<o.out[m][1], o.out[m][2]>> = o.draws[o.at[m] + 1]
                  /\ Tokens(o)[m] = TokenAt(o, o.at[m])
            /\ \A j \in 0..(o.i - 1) :
                  Kskip(o.draws[j + 1][2]) =>
                      \A m \in 1..Len(o.out) : Tokens(o)[m] # TokenAt(o, j)
            /\ Distinct(Tokens(o))

\* C15 witness: the first draw was rejected and two later ones were yielded.
C15_Witness ==
    \E g \in 1..Len(gens) :
        /\ gens[g].kind = "TrajGenNormal"
        /\ gens[g].pc = "done"
        /\ Len(gens[g].out) >= 2
        /\ Kskip(gens[g].draws[1][2])

\* C13 (as claimed): when run_trajectories(n) has returned, the number of
\* trajectories excluded for StillInteracting is n minus the length of the
\* returned trace sequence, whatever the sampler.
C13_ExcludedFromRequested ==
    (entry \in RunEntries /\ ret # None) =>
        Cardinality(Excluded) = n - Len(ret[3])

\* What the code does give: the number of excluded trajectories is the number
\* of samples the sampler yielded minus the length of the returned trace
\* sequence; the sampler yields at most n, and the count is n minus that
\* length exactly when it yielded n samples.  The number yielded is not
\* returned.
ExcludedFromYielded ==
    (entry \in RunEntries /\ ret # None) =>
        /\ Cardinality(Excluded) = nyield - Len(ret[3])
        /\ nyield <= n
        /\ (Cardinality(Excluded) = n - Len(ret[3])) <=> (nyield = n)

\* A call for n samples returned after the sampler yielded fewer than n, with
\* one trajectory excluded and one completed.
ReturnedShortOfRequested ==
    /\ entry \in RunEntries
    /\ pc = "returned"
    /\ nyield < n
    /\ Excluded # {}
    /\ Completed # {}

\* The defaults the docstring of BatchedTraj.__init__ and the claim give.
C14_Expected ==
    [initial_time |-> F(0), samples |-> I(2000), dt |-> F(20),
     nprocs |-> I(1), outcome_type |-> S("state")]

PhaseOf(ev) ==
    CASE ev[1] \in {"spawn_tracer", "construct"} -> 1
      [] ev[1] = "simulate" -> 2
      [] ev[1] = "merge_tracer" -> 3
      [] ev[1] = "outcome" -> 4

\* The events of one kind, in the order they happened.
EventsOf(kind) == SelectSeq(log, LAMBDA ev : ev[1] = kind)

\* C16: compute() runs as three strictly ordered phases followed by the
\* outcome: in the order of the calls no construction comes after a
\* simulate(), no simulate() after a merge_tracer(), and outcome() after the
\* last merge_tracer() (each call is in the phase of the one before it or in
\* a later one); when the first simulate() is called every sample has
\* been constructed and enqueued; when the first merge_tracer() is called
\* every simulate() has returned; tracemanager.outcomes is assigned only once
\* every result has been merged; and the k-th simulate() and the k-th
\* merge_tracer() are those of the k-th sample the sampler yielded.
C16_ThreePhases ==
    entry = "compute" =>
        /\ \A a \in 1..(Len(log) - 1) : PhaseOf(log[a]) <= PhaseOf(log[a + 1])
        /\ EventsOf("simulate") # <<>> =>
              /\ Len(trajs) = nyield
              /\ \A i \in 1..nyield : Count(<<"construct", i>>) = 1
        /\ EventsOf("merge_tracer") # <<>> =>
              /\ traj_queue = <<>>
              /\ Completed = 1..nyield
              /\ Len(EventsOf("simulate")) = nyield
        /\ tm.outcomes # Before.outcomes =>
              /\ pc = "returned"
              /\ results_queue = <<>>
              /\ Len(EventsOf("merge_tracer")) = nyield
              /\ tm.outcomes = TMOutcome(tm)
              /\ log[Len(log)] = <<"outcome", 0>>
        /\ \A k \in 1..Len(EventsOf("simulate")) :
              EventsOf("simulate")[k] = <<"simulate", k>>
        /\ \A k \in 1..Len(EventsOf("merge_tracer")) :
              EventsOf("merge_tracer")[k] = <<"merge_tracer", k>>

\* C16 witness: compute() stored the outcome after three phases over at least
\* two trajectories.
C16_Witness ==
    /\ entry = "compute"
    /\ pc = "returned"
    /\ nyield >= 2
    /\ tm.outcomes = TMOutcome(tm)
    /\ Len(EventsOf("simulate")) = nyield
    /\ Len(EventsOf("merge_tracer")) = nyield

\* The steps of compute() proper.
ComputeStep ==
    \/ ComputeYield
    \/ ComputeConstruct
    \/ ComputeSimulate
    \/ ComputeMerge
    \/ ComputeStore

\* A measure of the work compute() has left: the samples still to come, then
\* the trajectories still queued, then the results still queued.
ComputeRank ==
    CASE pc = "compute_for" -> 4 * MaxSamples + 6 - 2 * nyield
      [] pc = "compute_construct" -> 4 * MaxSamples + 7 - 2 * nyield
      [] pc = "compute_simulate" -> MaxSamples + 3 + Len(traj_queue)
      [] pc = "compute_merge" -> 2 + Len(results_queue)
      [] pc = "compute_store" -> 1
      [] OTHER -> 0

\* C17: compute() never blocks on an empty queue and terminates: it never
\* waits in a get(), inside the call a step of compute() is always possible,
\* every step brings the call nearer to its end (so that it ends after
\* finitely many), every trajectory taken from the queue had been put there
\* and is simulated once, and at return both queues are empty and every
\* enqueued trajectory has been simulated exactly once.
C17_ComputeTerminates ==
    /\ [](entry = "compute" =>
             /\ pc # "blocked"
             /\ pc \in {"returned", "raised"} \/ ENABLED ComputeStep
             /\ Len(traj_queue) <= nyield /\ Len(results_queue) <= nyield
             /\ \A i \in 1..Len(trajs) : Count(<<"simulate", i>>) <= 1
             /\ pc = "returned" =>
                   /\ traj_queue = <<>>
                   /\ results_queue = <<>>
                   /\ Len(trajs) = nyield
                   /\ \A i \in 1..nyield : Count(<<"simulate", i>>) = 1)
    /\ [][(entry = "compute" /\ pc # "idle") => ComputeRank' < ComputeRank]_vars

\* C17 witness: compute() returned with both queues empty after simulating
\* every one of at least two trajectories.
C17_Witness ==
    /\ entry = "compute"
    /\ pc = "returned"
    /\ nyield >= 2
    /\ traj_queue = <<>>
    /\ results_queue = <<>>
    /\ \A i \in 1..nyield : Count(<<"simulate", i>>) = 1

\* The trajectories whose simulate() raised an exception of its own.
Raisers == {i \in 1..Len(trajs) : trajs[i].result \in {"StillInteracting", "RuntimeError"}}

\* C19: when a trajectory's simulate() raises in compute(), StillInteracting
\* or anything else, that exception leaves compute(): nothing is returned,
\* merge_tracer() and outcome() have not been called, and the trace manager's
\* traces and outcomes are what they were before the call, although
\* trajectories before it may have completed.
C19_RaiseLeavesNoMerge ==
    (entry = "compute" /\ Raisers # {}) =>
        /\ pc = "raised"
        /\ \A i \in Raisers : exc = [type |-> trajs[i].result, at |-> "compute_simulate"]
        /\ ret = None
        /\ tm.traces = Before.traces
        /\ tm.outcomes = Before.outcomes
        /\ EventsOf("merge_tracer") = <<>>
        /\ EventsOf("outcome") = <<>>

\* C19 witness: StillInteracting left compute() after an earlier trajectory
\* had completed normally.
C19_Witness ==
    /\ entry = "compute"
    /\ pc = "raised"
    /\ exc.type = "StillInteracting"
    /\ Completed # {}
    /\ Raisers # {}


\* The items of the pool, the trajectories among them, and the workers that
\* an exception of simulate() has ended (pool.raised holds the items whose
\* simulate() raised).
PoolItems == 1..Len(pool.items)
PoolTrajs == {k \in PoolItems : pool.items[k] = "traj"}
DeadWorkers == {w \in 1..pool.nprocs : pool.wpc[w] = "dead"}
ResultsFor(k) == Cardinality({j \in 1..Len(pool.results) : pool.results[j] = Trace(k)})

\* Every item put has been handled to the end: the caller has put them all
\* and no task is unfinished.
PoolQuiet == pool.caller # "put" /\ pool.unfinished = 0

\* C18: with N >= 1 workers on one work queue and one results queue, in every
\* interleaving: an item is taken by at most one worker, simulated at most
\* once and only if it is a trajectory (a None item never), has at most one
\* result and only after its simulate(), and task_done() at most once and
\* only after it was taken; the count of unfinished tasks is the number of
\* items put minus the number of task_done() calls; and as long as no
\* simulate() raises, the count reaches zero with every item taken by exactly
\* one worker, every trajectory simulated exactly once with exactly one
\* result, and task_done() called exactly once per item, and join() returns.
C18_PoolProcessesEachOnce ==
    /\ [](/\ \A k \in PoolItems :
                /\ Cardinality(pool.taken[k]) <= 1
                /\ pool.taken[k] # {} => k <= pool.nput
                /\ pool.simulated[k] <= Cardinality(pool.taken[k])
                /\ pool.items[k] = "None" => (pool.simulated[k] = 0 /\ ResultsFor(k) = 0)
                /\ ResultsFor(k) <= pool.simulated[k]
                /\ pool.done[k] <= Cardinality(pool.taken[k])
          /\ pool.unfinished =
                pool.nput - Cardinality({k \in PoolItems : pool.done[k] = 1})
          /\ (PoolQuiet /\ pool.raised = {}) =>
                /\ pool.queue = <<>>
                /\ Len(pool.results) = Cardinality(PoolTrajs)
                /\ \A k \in PoolItems :
                      /\ Cardinality(pool.taken[k]) = 1
                      /\ pool.done[k] = 1
                      /\ pool.simulated[k] = IF k \in PoolTrajs THEN 1 ELSE 0
                      /\ ResultsFor(k) = IF k \in PoolTrajs THEN 1 ELSE 0)
    /\ <>(pool.raised # {} \/ (PoolQuiet /\ pool.caller = "joined"))

\* C18 witness: two workers have each taken items, a None among them, every
\* simulate() returned, and no task is unfinished.
C18_Witness ==
    /\ PoolQuiet
    /\ pool.raised = {}
    /\ pool.nprocs >= 2
    /\ \E k \in PoolItems : pool.items[k] = "None"
    /\ Cardinality(PoolTrajs) >= 2
    /\ \A w \in 1..pool.nprocs : \E k \in PoolItems : pool.taken[k] = {w}

\* C20: when simulate() raises, the worker leaves its loop for good, with no
\* task_done() and no result for the item it holds; from then on the count of
\* unfinished tasks is at least the number of such workers, so never zero,
\* and join() has not returned and never does; and an item leaves the queue
\* only by a worker that is still running, so that once every worker has
\* ended the items queued and those put later stay on the queue, with no
\* result and no task_done() for them.
C20_RaiseStallsJoin ==
    /\ [](/\ \A k \in pool.raised :
                /\ k \in PoolTrajs
                /\ pool.done[k] = 0
                /\ ResultsFor(k) = 0
                /\ \E w \in DeadWorkers : pool.taken[k] = {w} /\ pool.held[w] = k
          /\ Cardinality(DeadWorkers) = Cardinality(pool.raised)
          /\ pool.unfinished >= Cardinality(pool.raised)
          /\ pool.raised # {} => (pool.unfinished > 0 /\ pool.caller # "joined"))
    /\ [][/\ pool.raised \subseteq pool'.raised
          /\ DeadWorkers \subseteq DeadWorkers'
          /\ \A w \in DeadWorkers : pool'.held[w] = pool.held[w]
          /\ pool'.queue # pool.queue /\ pool'.nput = pool.nput =>
                \E w \in 1..pool.nprocs :
                    /\ pool.wpc[w] = "get"
                    /\ pool'.held[w] = Head(pool.queue)
          /\ DeadWorkers = 1..pool.nprocs =>
                /\ SubSeq(pool'.queue, 1, Len(pool.queue)) = pool.queue
                /\ pool'.results = pool.results
                /\ pool'.done = pool.done
                /\ pool'.caller # "joined"]_vars

\* C20 witness: one worker ended by an exception while another went on to
\* finish a later item, and the caller waits in join() with the count at one.
C20_Witness ==
    /\ pool.caller = "join"
    /\ Cardinality(DeadWorkers) = 1
    /\ Cardinality(pool.raised) = 1
    /\ pool.unfinished = 1
    /\ pool.queue = <<>>
    /\ \E k \in PoolTrajs : pool.done[k] = 1 /\ \A w \in DeadWorkers : pool.held[w] < k

====
